---- MODULE Spec2Model ----
(***************************************************************************)
(* Model of src/xrotor/model.py: the aerodynamic Section (constructor,     *)
(* from_dict, fit_polar and the six evaluators) and the Case containers    *)
(* built by Case.from_dict.                                                *)
(*                                                                         *)
(* Numbers.  The nine fitted parameters, Re and Re_exp are fixed-point     *)
(* integers in tenths (1.0 is 10, 0.1 is 1).  Polar table cells are        *)
(* integers.  A mean or an interpolated value is an exact rational         *)
(* <<num, den>> in lowest terms.  M_crit is either the literal 0.6 or the  *)
(* root newton() returns for a given Cp, kept symbolically.                *)
(***************************************************************************)
EXTENDS Integers, Sequences, FiniteSets

VARIABLES polar, outcome, samples,      \* Section.fit_polar
          sec, sec0, calls, ret,        \* one Section and its evaluators
          heap, cases                   \* Case.from_dict

vars == <<polar, outcome, samples, sec, sec0, calls, ret, heap, cases>>
fitVars == <<polar, outcome, samples>>
secVars == <<sec, sec0, calls, ret>>
caseVars == <<heap, cases>>

(***************************************************************************)
(* Bounds of the model                                                     *)
(***************************************************************************)
MaxRows == 3
MaxCalls == 2
MaxCases == 2

(***************************************************************************)
(* Exact rationals                                                         *)
(***************************************************************************)
Abs(n) == IF n < 0 THEN -n ELSE n

RECURSIVE Gcd(_, _)
Gcd(a, b) == IF b = 0 THEN a ELSE Gcd(b, a % b)

Rat(n, d) ==
    LET g == Gcd(Abs(n), Abs(d))
        s == IF d < 0 THEN -1 ELSE 1
    IN  <<(s * n) \div g, (s * d) \div g>>

(***************************************************************************)
(* Section.__init__ with positional args and keyword kwargs                *)
(***************************************************************************)
ParamNames == <<"a_0", "dClda", "Cl_max", "Cl_min", "dClda_stall", "dCl_stall",
                "Cd_min", "Cl_Cd_min", "dCddCl2">>

KwNames == {"Cm_const", "M_crit", "Re", "Re_exp"}

McritConst(tenths) == [tag |-> "const", tenths |-> tenths, cp |-> <<0, 1>>]
McritRoot(cp) == [tag |-> "newton_root", tenths |-> 0, cp |-> cp]

\* The constructor reading its positional arguments in the column order of
\* Blade.aerodata (a_0, Cl_max, Cl_min, dClda, ...).
SectionSwapped(args, kwargs) ==
    [a_0         |-> IF Len(args) < 1 THEN 0 ELSE args[1],
     Cl_max      |-> IF Len(args) < 2 THEN 0 ELSE args[2],
     Cl_min      |-> IF Len(args) < 3 THEN 0 ELSE args[3],
     dClda       |-> IF Len(args) < 4 THEN 0 ELSE args[4],
     dClda_stall |-> IF Len(args) < 5 THEN 0 ELSE args[5],
     dCl_stall   |-> IF Len(args) < 6 THEN 0 ELSE args[6],
     Cd_min      |-> IF Len(args) < 7 THEN 0 ELSE args[7],
     Cl_Cd_min   |-> IF Len(args) < 8 THEN 0 ELSE args[8],
     dCddCl2     |-> IF Len(args) < 9 THEN 0 ELSE args[9],
     Cm_const    |-> IF "Cm_const" \notin DOMAIN kwargs THEN <<0, 1>> ELSE kwargs["Cm_const"],
     M_crit      |-> IF "M_crit" \notin DOMAIN kwargs THEN McritConst(0) ELSE kwargs["M_crit"],
     Re          |-> IF "Re" \notin DOMAIN kwargs THEN 0 ELSE kwargs["Re"],
     Re_exp      |-> IF "Re_exp" \notin DOMAIN kwargs THEN 0 ELSE kwargs["Re_exp"]]

Section(args, kwargs) ==
    [a_0         |-> IF Len(args) < 1 THEN 0 ELSE args[1],
     dClda       |-> IF Len(args) < 2 THEN 0 ELSE args[2],
     Cl_max      |-> IF Len(args) < 3 THEN 0 ELSE args[3],
     Cl_min      |-> IF Len(args) < 4 THEN 0 ELSE args[4],
     dClda_stall |-> IF Len(args) < 5 THEN 0 ELSE args[5],
     dCl_stall   |-> IF Len(args) < 6 THEN 0 ELSE args[6],
     Cd_min      |-> IF Len(args) < 7 THEN 0 ELSE args[7],
     Cl_Cd_min   |-> IF Len(args) < 8 THEN 0 ELSE args[8],
     dCddCl2     |-> IF Len(args) < 9 THEN 0 ELSE args[9],
     Cm_const    |-> IF "Cm_const" \notin DOMAIN kwargs THEN <<0, 1>> ELSE kwargs["Cm_const"],
     M_crit      |-> IF "M_crit" \notin DOMAIN kwargs THEN McritConst(0) ELSE kwargs["M_crit"],
     Re          |-> IF "Re" \notin DOMAIN kwargs THEN 0 ELSE kwargs["Re"],
     Re_exp      |-> IF "Re_exp" \notin DOMAIN kwargs THEN 0 ELSE kwargs["Re_exp"]]

NoKwargs == [k \in {} |-> 0]

(***************************************************************************)
(* numpy helpers used by fit_polar.  A polar is a sequence of rows, a row  *)
(* a sequence of cells; numpy column c is cell c + 1.                      *)
(***************************************************************************)
Shape1(p) == Len(p[1])

Column(p, c) == [i \in 1..Len(p) |-> p[i][c + 1]]

RECURSIVE SumSeq(_)
SumSeq(s) == IF s = <<>> THEN 0 ELSE s[1] + SumSeq(Tail(s))

np_mean(s) == Rat(SumSeq(s), Len(s))

Range(s) == {s[i] : i \in 1..Len(s)}

MinOf(S) == CHOOSE m \in S : \A n \in S : m <= n

RECURSIVE SortedSeq(_)
SortedSeq(S) == IF S = {} THEN <<>> ELSE <<MinOf(S)>> \o SortedSeq(S \ {MinOf(S)})

\* np.unique keeping, for each value, the index of its last occurrence.
np_unique_last(ar) ==
    LET vals == SortedSeq(Range(ar))
    IN  [values  |-> vals,
         indices |-> [k \in 1..Len(vals) |->
                        CHOOSE i \in 1..Len(ar) :
                            /\ ar[i] = vals[k]
                            /\ \A j \in 1..Len(ar) : ar[j] = vals[k] => j <= i]]

\* np.unique(ar, return_index=True): the sorted distinct values, and for each
\* the index of its first occurrence in ar.
np_unique(ar) ==
    LET vals == SortedSeq(Range(ar))
    IN  [values  |-> vals,
         indices |-> [k \in 1..Len(vals) |->
                        CHOOSE i \in 1..Len(ar) :
                            /\ ar[i] = vals[k]
                            /\ \A j \in 1..Len(ar) : ar[j] = vals[k] => i <= j]]

\* np.interp(x, xp, fp) for ascending xp: constant outside [xp[0], xp[-1]],
\* linear between the two samples that bracket x.
np_interp(x, xp, fp) ==
    LET n == Len(xp)
    IN  IF x <= xp[1] THEN Rat(fp[1], 1)
        ELSE IF x >= xp[n] THEN Rat(fp[n], 1)
        ELSE LET j == CHOOSE i \in 1..(n - 1) : xp[i] <= x /\ x < xp[i + 1]
                 dx == xp[j + 1] - xp[j]
             IN  Rat(fp[j] * dx + (x - xp[j]) * (fp[j + 1] - fp[j]), dx)

(***************************************************************************)
(* scipy.optimize.minimize(e, np.ones(9), bounds=...)                      *)
(***************************************************************************)
NFree == 9

x0 == [i \in 1..NFree |-> 10]

Bounds == << <<-100, 100>>, <<10, 200>>, <<0, 30>>, <<-30, 0>>, <<-20, 20>>,
             <<1, 3>>, <<0, 5>>, <<-10, 10>>, <<0, 10>> >>

Clip(v, b) == IF v < b[1] THEN b[1] ELSE IF v > b[2] THEN b[2] ELSE v

\* L-BFGS-B projects the start onto the box and keeps every iterate inside
\* it; the result is some feasible point, flagged converged or not.  The
\* points drawn are the projected start, the two corners of the box and a
\* point alternating between them.
minimize(start, bounds) ==
    LET n == Len(start)
        projected == [i \in 1..n |-> Clip(start[i], bounds[i])]
        lower == [i \in 1..n |-> bounds[i][1]]
        upper == [i \in 1..n |-> bounds[i][2]]
        mixed == [i \in 1..n |-> IF i % 2 = 1 THEN bounds[i][1] ELSE bounds[i][2]]
    IN  {[x |-> p, success |-> s] : p \in {projected, lower, upper, mixed}, s \in BOOLEAN}

(***************************************************************************)
(* Section.fit_polar(polar)                                                *)
(***************************************************************************)
CpBranch(p) == Shape1(p) = 9

\* The (a_unique, polar[indices, 5]) pair handed to np.interp.
CpSamples(p) ==
    LET u == np_unique(Column(p, 0))
    IN  [xp |-> u.values,
         fp |-> [k \in 1..Len(u.values) |-> p[u.indices[k]][5 + 1]]]

DefaultMcrit == 6

\* res: the optimizer's result; newtonOk: whether newton() converges (it
\* raises RuntimeError when it does not).  minimize() has always been run by
\* the time anything is returned or raised; res.success is never read.
fit_polar(p, res, newtonOk) ==
    IF CpBranch(p) /\ ~newtonOk
    THEN [kind |-> "RuntimeError", minimized |-> TRUE, success |-> res.success]
    ELSE IF 4 >= Shape1(p)
    THEN [kind |-> "IndexError", minimized |-> TRUE, success |-> res.success]
    ELSE LET M_crit == IF CpBranch(p)
                       THEN McritRoot(np_interp(0, CpSamples(p).xp, CpSamples(p).fp))
                       ELSE McritConst(DefaultMcrit)
             kw == [k \in {"Cm_const", "M_crit"} |->
                        IF k = "Cm_const" THEN np_mean(Column(p, 4)) ELSE M_crit]
         IN  [kind |-> "Section", minimized |-> TRUE, success |-> res.success,
              sec |-> Section(res.x, kw)]

(***************************************************************************)
(* Polar tables the model feeds to fit_polar                               *)
(***************************************************************************)
NCols == {4, 5, 9}
Alphas == {-1, 1}
Cells == {0, 1}

MkRow(n, a, v3, v4, v5) ==
    [c \in 1..n |-> IF c = 1 THEN a
                    ELSE IF c = 4 THEN v3
                    ELSE IF c = 5 THEN v4
                    ELSE IF c = 6 THEN v5
                    ELSE 0]

PolarRows(n) == {MkRow(n, a, v3, v4, v5) : a \in Alphas, v3 \in Cells, v4 \in Cells, v5 \in Cells}

Polars == UNION {[1..k -> PolarRows(n)] : k \in 1..MaxRows, n \in NCols}

Pending == [kind |-> "pending", minimized |-> FALSE, success |-> FALSE]
NoSamples == [xp |-> <<>>, fp |-> <<>>]

FitInit ==
    /\ polar \in Polars
    /\ outcome = Pending
    /\ samples = NoSamples

FitPolar ==
    /\ outcome.kind = "pending"
    /\ \E res \in minimize(x0, Bounds), newtonOk \in BOOLEAN :
          /\ (~CpBranch(polar) => newtonOk)
          /\ outcome' = fit_polar(polar, res, newtonOk)
    /\ samples' = IF CpBranch(polar) THEN CpSamples(polar) ELSE NoSamples
    /\ UNCHANGED polar


(***************************************************************************)
(* Section.from_dict(d): a default Section, then setattr for every key of  *)
(* d that the instance already has.                                        *)
(***************************************************************************)
from_dict(d) ==
    LET s == Section(<<>>, NoKwargs)
    IN  [k \in DOMAIN s |-> IF k \in DOMAIN d THEN d[k] ELSE s[k]]

(***************************************************************************)
(* The evaluators.  Each is the pair of the instance after the call and    *)
(* what the call gives back.  alpha is [scalar, v]: a float (v of length   *)
(* one) or an ndarray v of angles in whole degrees.  cl_lin is exact: its  *)
(* value is kept as the integer k of k/100 * pi/180.  The other five go    *)
(* through exp and log; of their result the model keeps the shape and      *)
(* whether a Python division by zero is raised on the way.                 *)
(***************************************************************************)
Shape(alpha) == IF alpha.scalar THEN 0 ELSE Len(alpha.v)

cl_lin(self, alpha) ==
    [self   |-> self,
     raised |-> FALSE,
     shape  |-> Shape(alpha),
     value  |-> [i \in 1..Len(alpha.v) |-> (10 * alpha.v[i] - self.a_0) * self.dClda]]

\* delta_cl_nl storing a clamped dCl_stall on the instance to dodge the
\* division by zero.
delta_cl_nl_clamping(self, alpha) ==
    [self   |-> [self EXCEPT !.dCl_stall = IF @ = 0 THEN 1 ELSE @],
     raised |-> FALSE,
     shape  |-> Shape(alpha),
     value  |-> <<>>]

\* (cl_lin - Cl_max) / dCl_stall: float / 0 raises, ndarray / 0 only warns.
delta_cl_nl(self, alpha) ==
    [self   |-> cl_lin(self, alpha).self,
     raised |-> alpha.scalar /\ self.dCl_stall = 0,
     shape  |-> Shape(alpha),
     value  |-> <<>>]

\* dClda_stall / dClda is a division of two attributes: it raises when
\* dClda is 0, whatever alpha is.
cl(self, alpha) ==
    [self   |-> delta_cl_nl(cl_lin(self, alpha).self, alpha).self,
     raised |-> self.dClda = 0 \/ delta_cl_nl(self, alpha).raised,
     shape  |-> Shape(alpha),
     value  |-> <<>>]

cd_lin(self, alpha) ==
    [self   |-> cl(self, alpha).self,
     raised |-> cl(self, alpha).raised,
     shape  |-> Shape(alpha),
     value  |-> <<>>]

delta_cd_nl(self, alpha) ==
    [self   |-> delta_cl_nl(self, alpha).self,
     raised |-> self.dClda = 0 \/ delta_cl_nl(self, alpha).raised,
     shape  |-> Shape(alpha),
     value  |-> <<>>]

cd(self, alpha) ==
    [self   |-> delta_cd_nl(cd_lin(self, alpha).self, alpha).self,
     raised |-> cd_lin(self, alpha).raised \/ delta_cd_nl(self, alpha).raised,
     shape  |-> Shape(alpha),
     value  |-> <<>>]

(***************************************************************************)
(* One Section: built once, then evaluated                                 *)
(***************************************************************************)
BaseArgs == { <<10, 10, 10, 10, 10, 10, 10, 10, 10>>,
              <<-20, 60, 15, -10, 0, 2, 1, 5, 1>>,
              <<0, 60, -10, 10, 0, -1, 0, 0, 0>> }

ArgSeqs == {SubSeq(b, 1, n) : b \in BaseArgs, n \in 0..9}

KwValue(k) == IF k = "Cm_const" THEN <<1, 10>>
              ELSE IF k = "M_crit" THEN McritConst(7)
              ELSE IF k = "Re" THEN 20
              ELSE 5

Kwargs == {[k \in K |-> KwValue(k)] : K \in SUBSET KwNames}

DictKeys == {"dClda", "Cl_max", "Cl_min", "dCl_stall", "M_crit", "name"}

DictValue(k) == IF k = "dClda" THEN 60
                ELSE IF k = "Cl_max" THEN -5
                ELSE IF k = "Cl_min" THEN 5
                ELSE IF k = "dCl_stall" THEN 2
                ELSE IF k = "M_crit" THEN McritConst(7)
                ELSE 0

SectionDicts == {[k \in K |-> DictValue(k)] : K \in SUBSET DictKeys}

AlphaArgs == {[scalar |-> TRUE, v |-> <<a>>] : a \in {-5, 0, 5}}
                 \cup {[scalar |-> FALSE, v |-> <<-5, 0, 5>>]}

NoRet == [fn |-> "none", raised |-> FALSE, shape |-> 0, value |-> <<>>]

SecInit ==
    /\ sec = [origin |-> "none", obj |-> Section(<<>>, NoKwargs)]
    /\ sec0 = Section(<<>>, NoKwargs)
    /\ calls = 0
    /\ ret = NoRet

NewSection ==
    /\ sec.origin = "none"
    /\ \E args \in ArgSeqs, kwargs \in Kwargs :
          /\ sec' = [origin |-> "Section", obj |-> Section(args, kwargs)]
          /\ sec0' = Section(args, kwargs)
    /\ UNCHANGED <<calls, ret>>

SectionFromDict ==
    /\ sec.origin = "none"
    /\ \E d \in SectionDicts :
          /\ sec' = [origin |-> "from_dict", obj |-> from_dict(d)]
          /\ sec0' = from_dict(d)
    /\ UNCHANGED <<calls, ret>>

Evaluate(fn, r) ==
    /\ sec' = [sec EXCEPT !.obj = r.self]
    /\ ret' = [fn |-> fn, raised |-> r.raised, shape |-> r.shape, value |-> r.value]
    /\ calls' = calls + 1
    /\ UNCHANGED sec0

CanCall == sec.origin # "none" /\ calls < MaxCalls

Call_cl_lin == CanCall /\ \E alpha \in AlphaArgs : Evaluate("cl_lin", cl_lin(sec.obj, alpha))

Call_delta_cl_nl == CanCall /\ \E alpha \in AlphaArgs : Evaluate("delta_cl_nl", delta_cl_nl(sec.obj, alpha))

Call_cl == CanCall /\ \E alpha \in AlphaArgs : Evaluate("cl", cl(sec.obj, alpha))

Call_cd_lin == CanCall /\ \E alpha \in AlphaArgs : Evaluate("cd_lin", cd_lin(sec.obj, alpha))

Call_delta_cd_nl == CanCall /\ \E alpha \in AlphaArgs : Evaluate("delta_cd_nl", delta_cd_nl(sec.obj, alpha))

Call_cd == CanCall /\ \E alpha \in AlphaArgs : Evaluate("cd", cd(sec.obj, alpha))


(***************************************************************************)
(* Conditions, Geometry, Blade, Disk, Settings and Case.  Objects live in  *)
(* heap and are named by reference.  The default arguments Conditions(),   *)
(* Geometry(), Blade(), Disk() and Settings() are evaluated once, when the *)
(* def statement runs: each is one object, and so is the dict() made by    *)
(* the one Blade() call.                                                   *)
(***************************************************************************)
Conditions == [rho |-> 0, vso |-> 0, rmu |-> 0, alt |-> 0, vel |-> 0, adv |-> 0]

Geometry == [r_hub |-> 0, r_tip |-> 1, r_wake |-> 0, rake |-> 0]

Blade(geometry, sections) == [geometry |-> geometry, sections |-> sections]

Disk(n_blds, blade) == [n_blds |-> n_blds, blade |-> blade]

Settings == [free |-> TRUE, duct |-> FALSE, wind |-> FALSE]

EmptyDict == [k \in {} |-> 0]

DefaultHeap ==
    [Conditions0 |-> Conditions,
     Geometry0   |-> Geometry,
     Sections0   |-> EmptyDict,
     Blade0      |-> Blade("Geometry0", "Sections0"),
     Disk0       |-> Disk(0, "Blade0"),
     Settings0   |-> Settings]

\* Case(): no argument given, so every attribute is its default object.
Case == [conditions |-> "Conditions0", disk |-> "Disk0", settings |-> "Settings0"]

\* The else branch of recurse on an object whose values in sub_d are all
\* plain: setattr for every key the object has.
SetAttrs(obj, sub_d) ==
    [k \in DOMAIN obj |-> IF k \in DOMAIN sub_d THEN sub_d[k] ELSE obj[k]]

\* The dict branch of recurse: obj.update({key: Section.from_dict(value)}).
UpdateSections(obj, sub_d) ==
    [k \in (DOMAIN obj) \cup (DOMAIN sub_d) |->
        IF k \in DOMAIN sub_d THEN from_dict(sub_d[k]) ELSE obj[k]]

recurse_blade(h, ref, sub_d) ==
    LET h1 == IF "geometry" \in DOMAIN sub_d
              THEN [h EXCEPT ![h[ref].geometry] = SetAttrs(@, sub_d.geometry)]
              ELSE h
    IN  IF "sections" \in DOMAIN sub_d
        THEN [h1 EXCEPT ![h1[ref].sections] = UpdateSections(@, sub_d.sections)]
        ELSE h1

recurse_disk(h, ref, sub_d) ==
    LET h1 == IF "n_blds" \in DOMAIN sub_d
              THEN [h EXCEPT ![ref].n_blds = sub_d.n_blds]
              ELSE h
    IN  IF "blade" \in DOMAIN sub_d
        THEN recurse_blade(h1, h1[ref].blade, sub_d.blade)
        ELSE h1

\* recurse(case, d) for a dictionary of dictionaries: the heap afterwards.
recurse(h, case, d) ==
    LET h1 == IF "conditions" \in DOMAIN d
              THEN [h EXCEPT ![case.conditions] = SetAttrs(@, d.conditions)]
              ELSE h
        h2 == IF "settings" \in DOMAIN d
              THEN [h1 EXCEPT ![case.settings] = SetAttrs(@, d.settings)]
              ELSE h1
    IN  IF "disk" \in DOMAIN d
        THEN recurse_disk(h2, case.disk, d.disk)
        ELSE h2

CondDicts == {[rho |-> 12], [rho |-> 10, vel |-> 50]}

SettingsDicts == {[free |-> FALSE], [duct |-> TRUE]}

SectionsAt(keys, dClda) == [k \in keys |-> [dClda |-> dClda, dCl_stall |-> 2]]

DiskDicts == {[n_blds |-> 2],
              [n_blds |-> 3, blade |-> [sections |-> SectionsAt({0}, 60)]],
              [blade |-> [geometry |-> [r_hub |-> 1], sections |-> SectionsAt({0, 5}, 50)]]}

CaseDicts ==
    {[k \in K |-> IF k = "conditions" THEN c ELSE IF k = "disk" THEN dk ELSE st] :
        K \in SUBSET {"conditions", "disk", "settings"},
        c \in CondDicts, dk \in DiskDicts, st \in SettingsDicts}

CaseInit ==
    /\ heap = DefaultHeap
    /\ cases = <<>>

\* What a caller reads through a Case: every attribute, references followed.
View(h, case) ==
    [conditions |-> h[case.conditions],
     n_blds     |-> h[case.disk].n_blds,
     geometry   |-> h[h[h[case.disk].blade].geometry],
     sections   |-> h[h[h[case.disk].blade].sections],
     settings   |-> h[case.settings]]

\* Case.from_dict(d): the returned Case is kept with the d it was built from
\* and with what it held when it was returned.
CaseFromDict ==
    /\ Len(cases) < MaxCases
    /\ \E d \in CaseDicts :
          /\ heap' = recurse(heap, Case, d)
          /\ cases' = Append(cases, [case |-> Case, d |-> d,
                                     returned |-> View(recurse(heap, Case, d), Case)])

(***************************************************************************)
(* Specifications                                                          *)
(***************************************************************************)
Init == FitInit /\ SecInit /\ CaseInit

Next == FitPolar /\ UNCHANGED <<secVars, caseVars>>

Spec == Init /\ [][Next]_vars

InitSection ==
    /\ polar = <<MkRow(4, 0, 0, 0, 0)>>
    /\ outcome = Pending
    /\ samples = NoSamples
    /\ SecInit
    /\ CaseInit

NextSection ==
    \/ NewSection /\ UNCHANGED <<fitVars, caseVars>>
    \/ SectionFromDict /\ UNCHANGED <<fitVars, caseVars>>
    \/ Call_cl_lin /\ UNCHANGED <<fitVars, caseVars>>
    \/ Call_delta_cl_nl /\ UNCHANGED <<fitVars, caseVars>>
    \/ Call_cl /\ UNCHANGED <<fitVars, caseVars>>
    \/ Call_cd_lin /\ UNCHANGED <<fitVars, caseVars>>
    \/ Call_delta_cd_nl /\ UNCHANGED <<fitVars, caseVars>>
    \/ Call_cd /\ UNCHANGED <<fitVars, caseVars>>

SpecSection == InitSection /\ [][NextSection]_vars

InitCase ==
    /\ polar = <<MkRow(4, 0, 0, 0, 0)>>
    /\ outcome = Pending
    /\ samples = NoSamples
    /\ SecInit
    /\ CaseInit

NextCase == CaseFromDict /\ UNCHANGED <<fitVars, secVars>>

SpecCase == InitCase /\ [][NextCase]_vars


(***************************************************************************)
(* Properties                                                              *)
(***************************************************************************)
Returned == outcome.kind # "pending"

\* C1: a polar with exactly the four documented columns (alpha, cl, cd, cm)
\* and no pressure column is fitted: fit_polar returns a Section whose
\* M_crit is the literal 0.6.
C1_FourColumnsGiveDefaultMcrit ==
    (Returned /\ Shape1(polar) = 4) =>
        (outcome.kind = "Section" /\ outcome.sec.M_crit = McritConst(6))

\* C2: Cm_const of the fitted Section is the mean of the moment column, the
\* fourth column of the table (numpy column 3).
C2_CmConstIsMeanOfFourthColumn ==
    outcome.kind = "Section" => outcome.sec.Cm_const = np_mean(Column(polar, 3))

\* C3: when the table has a fifth column, the pressure coefficient, a
\* returned Section never has the 0.6 default: its M_crit is the newton root
\* for Cp0, the fifth column (numpy column 4) interpolated at alpha = 0 over
\* the sorted distinct angles.
C3_FifthColumnDrivesMcrit ==
    (outcome.kind = "Section" /\ Shape1(polar) >= 5) =>
        LET a == Column(polar, 0)
            xp == SortedSeq(Range(a))
            fp == [k \in 1..Len(xp) |->
                     polar[MinOf({i \in 1..Len(a) : a[i] = xp[k]})][5]]
        IN  outcome.sec.M_crit = McritRoot(np_interp(0, xp, fp))

\* C4: a polar with no more rows than free parameters is rejected before
\* the optimizer runs, and no Section is returned.
C4_FewRowsRejected ==
    (Returned /\ Len(polar) <= 9) =>
        (outcome.kind # "Section" /\ ~outcome.minimized)

\* C5: every Section that exists has dCl_stall > 0 and Cl_max >= Cl_min.
C5_SectionInvariants ==
    sec.origin # "none" =>
        (sec.obj.dCl_stall > 0 /\ sec.obj.Cl_max >= sec.obj.Cl_min)

\* C6: when the optimizer does not converge, fit_polar reports it and never
\* returns a Section as if the fit had converged.
C6_NonConvergenceReported ==
    (Returned /\ ~outcome.success) => outcome.kind # "Section"

\* C7: after any number of evaluator calls, all thirteen parameters of the
\* Section have the values they had when it was constructed.
C7_EvaluatorsKeepParameters ==
    calls > 0 =>
        /\ sec.obj.a_0 = sec0.a_0
        /\ sec.obj.dClda = sec0.dClda
        /\ sec.obj.Cl_max = sec0.Cl_max
        /\ sec.obj.Cl_min = sec0.Cl_min
        /\ sec.obj.dClda_stall = sec0.dClda_stall
        /\ sec.obj.dCl_stall = sec0.dCl_stall
        /\ sec.obj.Cd_min = sec0.Cd_min
        /\ sec.obj.Cl_Cd_min = sec0.Cl_Cd_min
        /\ sec.obj.dCddCl2 = sec0.dCddCl2
        /\ sec.obj.Cm_const = sec0.Cm_const
        /\ sec.obj.M_crit = sec0.M_crit
        /\ sec.obj.Re = sec0.Re
        /\ sec.obj.Re_exp = sec0.Re_exp

\* A Section built without dCl_stall has been put through cd on an array and
\* through a second evaluator.
C7_Witness ==
    /\ calls >= 2
    /\ sec.obj.dCl_stall = 0
    /\ sec.obj.dClda # 0
    /\ ret.fn = "cd"
    /\ ret.shape = 3

\* C8: each of the nine fitted parameters of a returned Section lies in its
\* box (values in tenths).
C8_FittedParametersInBox ==
    outcome.kind = "Section" =>
        /\ outcome.sec.a_0 \in -100..100
        /\ outcome.sec.dClda \in 10..200
        /\ outcome.sec.Cl_max \in 0..30
        /\ outcome.sec.Cl_min \in -30..0
        /\ outcome.sec.dClda_stall \in -20..20
        /\ outcome.sec.dCl_stall \in 1..3
        /\ outcome.sec.Cd_min \in 0..5
        /\ outcome.sec.Cl_Cd_min \in -10..10
        /\ outcome.sec.dCddCl2 \in 0..10

\* The optimizer stopped at the projection of the all-ones start: Cl_min,
\* dCl_stall and Cd_min sit on the bound nearest to 1.0, the rest are 1.0.
C8_Witness ==
    /\ outcome.kind = "Section"
    /\ outcome.sec.a_0 = 10
    /\ outcome.sec.Cl_max = 10
    /\ outcome.sec.Cl_min = 0
    /\ outcome.sec.dCl_stall = 3
    /\ outcome.sec.Cd_min = 5

\* C9: in the critical-Mach branch the samples handed to np.interp hold each
\* angle of the table once, in ascending order, each paired with the
\* pressure coefficient of the first row that has that angle.
C9_SamplesDeduplicatedFirstWins ==
    (Returned /\ Shape1(polar) = 9) =>
        /\ Len(samples.fp) = Len(samples.xp)
        /\ \A k \in 1..(Len(samples.xp) - 1) : samples.xp[k] < samples.xp[k + 1]
        /\ \A i \in 1..Len(polar) : \E k \in 1..Len(samples.xp) : samples.xp[k] = polar[i][1]
        /\ \A k \in 1..Len(samples.xp) :
              \E i \in 1..Len(polar) :
                  /\ polar[i][1] = samples.xp[k]
                  /\ \A j \in 1..(i - 1) : polar[j][1] # samples.xp[k]
                  /\ samples.fp[k] = polar[i][6]

\* A nine-column table with unsorted angles, one of them repeated with two
\* different pressure coefficients, has gone through fit_polar.
C9_Witness ==
    /\ Returned
    /\ Shape1(polar) = 9
    /\ Len(samples.xp) = 2
    /\ Len(polar) >= 3
    /\ polar[1][1] > polar[2][1]
    /\ \E i, j \in 1..Len(polar) :
          i < j /\ polar[i][1] = polar[j][1] /\ polar[i][6] # polar[j][6]

\* C10: every Case built by Case.from_dict holds what its own dictionary
\* gave it, and still holds exactly what it held when it was returned.
C10_CasesIsolated ==
    \A i \in 1..Len(cases) :
        LET now == View(heap, cases[i].case)
            d == cases[i].d
        IN  /\ now = cases[i].returned
            /\ "conditions" \in DOMAIN d =>
                  \A k \in DOMAIN d.conditions : now.conditions[k] = d.conditions[k]
            /\ "settings" \in DOMAIN d =>
                  \A k \in DOMAIN d.settings : now.settings[k] = d.settings[k]
            /\ ("disk" \in DOMAIN d /\ "n_blds" \in DOMAIN d.disk) =>
                  now.n_blds = d.disk.n_blds
            /\ ("disk" \in DOMAIN d /\ "blade" \in DOMAIN d.disk
                    /\ "sections" \in DOMAIN d.disk.blade) =>
                  DOMAIN now.sections = DOMAIN d.disk.blade.sections

====
